---- MODULE Spec2Model ----
(***************************************************************************)
(* A model of zephyr/models.py: the relational store (Stream, Recipient,   *)
(* Huddle, Client, Subscription, Message, UserMessage), the delivery       *)
(* engine do_send_message, and the idempotent resolvers                    *)
(* create_stream_if_needed, get_huddle and get_client, each run by         *)
(* concurrent workers that share the store.                                *)
(*                                                                         *)
(* A table is a set of rows; a row carries its primary key "id", so two    *)
(* rows that agree on every other column are two rows.  UserMessage rows   *)
(* are never updated and are kept as a bag of (user_profile, message).     *)
(* A write made inside a transaction is held in the worker's txn buffer    *)
(* and reaches the shared tables at commit; every read is of the shared    *)
(* (committed) tables.  A write outside a transaction is committed by the  *)
(* statement itself.                                                       *)
(***************************************************************************)
EXTENDS Integers, Sequences, FiniteSets, Bags, TLC

(***************************************************************************)
(* Bounds of the model.                                                    *)
(***************************************************************************)
MaxUser == 3
MaxWorker == 2
MaxSends == 2
MaxIdListLen == 3
MaxLog == 3
MaxCalls == 3
MaxHuddleCalls == 2

UserProfile == 1..MaxUser
Workers == 1..MaxWorker

(***************************************************************************)
(* Recipient.type values.                                                  *)
(***************************************************************************)
PERSONAL == 1
STREAM == 2
HUDDLE == 3

VARIABLES
    is_active,       \* User.is_active of each user profile's account
    Stream,          \* rows [id, name, realm]
    Recipient,       \* rows [id, type, type_id]
    Huddle,          \* rows [id, huddle_hash]
    Client,          \* rows [id, name]
    Subscription,    \* rows [id, user_profile, recipient, active]
    Message,         \* rows [id, sender, recipient, content]
    UserMessage,     \* bag of rows [user_profile, message]
    nextMessageId,   \* the Message id sequence (not rolled back)
    TORNADO_SERVER,  \* whether settings.TORNADO_SERVER is set
    cache,           \* the cache behind cache_with_key: key -> cached value
    log,             \* the audit log: a sequence of events
    posts,           \* POSTs issued to the push gateway
    pc,              \* position of each worker in do_send_message
    call,            \* the message object each worker is sending
    recipients,      \* the local list "recipients" of each worker
    txn,             \* rows written by each worker's open transaction
    result,          \* how each worker's last call ended
    snap,            \* history: what the store held when a worker resolved
    sent,            \* history: per Message id, the send that allocated it
                     \* and how its transaction ended
    nsends,          \* number of do_send_message calls begun
    rpc,             \* position of each worker in a resolver call
    rcall,           \* arguments and locals of each worker's resolver call
    rtxn,            \* Client rows written by each worker's open transaction
    done             \* history: the resolver calls that have ended

vars == <<is_active, Stream, Recipient, Huddle, Client, Subscription, Message,
          UserMessage, nextMessageId, TORNADO_SERVER, cache, log, posts, pc,
          call,
          recipients, txn, result, snap, sent, nsends, rpc, rcall, rtxn, done>>

storeVars == <<Stream, Recipient, Huddle, Client, Subscription>>
sendVars == <<Message, UserMessage, nextMessageId, log, posts, pc, call,
              recipients, txn, result, snap, sent, nsends>>
deliveryVars == <<Message, UserMessage, nextMessageId, posts, pc, call,
                  recipients, txn, result, snap, sent, nsends>>
resolveVars == <<rpc, rcall, rtxn, done>>

(***************************************************************************)
(* Helpers on rows.                                                        *)
(***************************************************************************)
Ids(table) == {row.id : row \in table}

\* The id the store's sequence gives the next row of a table whose rows
\* are committed by the INSERT itself and never deleted.
NextId(table) == Cardinality(table) + 1

NoCall == [sender |-> 0, recipient |-> 0, no_log |-> TRUE, client |-> "",
           content |-> [kept |-> 0, notice |-> FALSE],
           body |-> [kept |-> 0, notice |-> FALSE],
           id |-> 0, saved |-> FALSE, i |-> 0]
NoTxn == [Message |-> {}, UserMessage |-> EmptyBag]
NoSnap == [subs |-> {}, accts |-> {}]
NoRCall == [op |-> "", n |-> 0, realm |-> 0, name |-> "", id_list |-> <<>>,
            obj |-> 0, created |-> FALSE, i |-> 0, raced |-> FALSE]

RecipientRow(rid) == CHOOSE r \in Recipient : r.id = rid

\* A set of ids as the list in ascending order.
RECURSIVE SortedIds(_)
SortedIds(S) ==
    IF S = {} THEN <<>>
    ELSE LET m == CHOOSE x \in S : \A y \in S : x <= y
         IN  <<m>> \o SortedIds(S \ {m})

(***************************************************************************)
(* get_user_profile_by_id: user_hash is never filled by this file, so the  *)
(* profile (with its account, select_related) is read from the store.      *)
(***************************************************************************)
user_hash == <<>>

get_user_profile_by_id(uid) ==
    IF uid \in DOMAIN user_hash THEN user_hash[uid]
    ELSE [id |-> uid, is_active |-> is_active[uid]]

(***************************************************************************)
(* Message.content.  A body is kept as the number of its units that come   *)
(* from the text the caller wrote and whether the truncation notice        *)
(* follows them.                                                           *)
(***************************************************************************)
MAX_MESSAGE_LENGTH == 10000
TruncatedLength == 3900
NoticeLength == 47

Content(n) == [kept |-> n, notice |-> FALSE]

len(text) == text.kept + (IF text.notice THEN NoticeLength ELSE 0)

\* content[0:3900] + "\n\n[message was too long and has been truncated]"
truncate(text) ==
    [kept |-> IF text.kept < TruncatedLength THEN text.kept
              ELSE TruncatedLength,
     notice |-> TRUE]

(***************************************************************************)
(* get_display_recipient under cache_with_key: the value computed for a    *)
(* Recipient id is stored under that id and returned from there by every   *)
(* later call.  Profiles are listed in the order of their ids (the order   *)
(* of their emails).                                                       *)
(***************************************************************************)
valid_type(rid) == RecipientRow(rid).type \in {PERSONAL, STREAM, HUDDLE}

display_recipient(rid) ==
    LET r == RecipientRow(rid)
    IN  IF r.type = STREAM
        THEN (CHOOSE stream \in Stream : stream.id = r.type_id).name
        ELSE SortedIds({s.user_profile : s \in {x \in Subscription :
                                                  x.recipient = rid}})

cache_with_key(key, computed) ==
    IF key \in DOMAIN cache THEN cache[key] ELSE computed

\* The cache after a call under cache_with_key.
cache_with_key_set(key, computed) ==
    IF key \in DOMAIN cache THEN cache ELSE (key :> computed) @@ cache

get_display_recipient(rid) == cache_with_key(rid, display_recipient(rid))

(***************************************************************************)
(* log_event / log_message.  to_log_dict asks recipient.type_name(), which *)
(* raises KeyError for a type that is none of the three, before anything   *)
(* is written.                                                             *)
(***************************************************************************)
startswith_test(client) == client = "test:client"

to_log_dict(c) ==
    [type |-> "message", sender |-> c.sender,
     recipient |-> get_display_recipient(c.recipient), client |-> c.client,
     content |-> c.content]

\* Mutant: nothing is written to the log.
log_message_skipped(c) == log

log_message(c) ==
    IF ~startswith_test(c.client) THEN Append(log, to_log_dict(c)) ELSE log

\* Whether do_send_message writes the message to the log.
logs(c) == ~c.no_log /\ ~startswith_test(c.client)

(***************************************************************************)
(* Query results as lists: rows in primary-key order.  The order of the    *)
(* inserts inside one transaction is not visible outside it.               *)
(***************************************************************************)
RowList(rows) ==
    LET ids == SortedIds(Ids(rows))
    IN  [k \in 1..Len(ids) |-> CHOOSE row \in rows : row.id = ids[k]]

\* list(set([a, b])) of two profiles: profiles hash and compare by id.
ListOfSet(a, b) ==
    LET ids == SortedIds({a.id, b.id})
    IN  [k \in 1..Len(ids) |-> IF ids[k] = a.id THEN a ELSE b]

\* Mutant: the two profiles kept as a list, never made a set.
personal_recipients_as_list(type_id, sender_id) ==
    <<get_user_profile_by_id(type_id), get_user_profile_by_id(sender_id)>>

\* do_send_message, the PERSONAL branch.
personal_recipients(type_id, sender_id) ==
    ListOfSet(get_user_profile_by_id(type_id), get_user_profile_by_id(sender_id))

\* Mutant: the filter on active=True left out.
subscribed_recipients_any(rid) ==
    LET rows == RowList({s \in Subscription : s.recipient = rid})
    IN  [k \in 1..Len(rows) |-> get_user_profile_by_id(rows[k].user_profile)]

\* do_send_message, the STREAM / HUDDLE branch: one profile per Subscription
\* row of the recipient with active=True, loaded with its account.
subscribed_recipients(rid) ==
    LET rows == RowList({s \in Subscription : s.recipient = rid /\ s.active})
    IN  [k \in 1..Len(rows) |-> get_user_profile_by_id(rows[k].user_profile)]

\* Mutant: UserMessage without its unique_together.
UserMessageNotUnique(visible, row) == TRUE

\* UserMessage.Meta.unique_together: the INSERT of row is refused when a row
\* with the same (user_profile, message) is visible to the transaction.
UserMessageUnique(visible, row) == ~BagIn(row, visible)

\* Mutant: the check of the account the wrong way round.
deliver_to_inactive(profile) == ~profile.is_active

\* "if user_profile.user.is_active" of the fanout loop.
deliver_to(profile) == profile.is_active

(***************************************************************************)
(* do_send_message(message, no_log), one action per step.  A worker is     *)
(* idle between calls.                                                     *)
(***************************************************************************)
ActiveSubscribers(rid) ==
    {u \in UserProfile : \E s \in Subscription :
        s.user_profile = u /\ s.recipient = rid /\ s.active}

ActiveAccounts == {u \in UserProfile : is_active[u]}

\* do_send_message is entered with a message object: its sender, recipient,
\* content and client, and its id when it was saved before.
\* if not no_log: log_message(message).  "failed" is log_event failing to
\* append (the lock file or the log file cannot be opened).  "body" is
\* history: the content as the caller of the send path wrote it.
do_send_message_enter(w, sender, rid, text, body, no_log, client, mid, failed) ==
    /\ pc[w] = "idle"
    /\ rpc[w] = "idle"
    /\ nsends < MaxSends
    /\ rid \in Ids(Recipient)
    /\ nsends' = nsends + 1
    /\ recipients' = [recipients EXCEPT ![w] = <<>>]
    /\ LET c == [sender |-> sender, recipient |-> rid, no_log |-> no_log,
                 client |-> client, content |-> text, body |-> body,
                 id |-> mid, saved |-> mid # 0, i |-> 0]
       IN  IF logs(c) /\ ~valid_type(rid)
           THEN /\ ~failed
                /\ result' = [result EXCEPT ![w] = "KeyError"]
                /\ UNCHANGED <<call, pc, log, cache>>
           ELSE IF logs(c) /\ failed
           THEN /\ result' = [result EXCEPT ![w] = "IOError"]
                /\ cache' = cache_with_key_set(rid, display_recipient(rid))
                /\ UNCHANGED <<call, pc, log>>
           ELSE /\ ~failed
                /\ call' = [call EXCEPT ![w] = c]
                /\ log' = IF no_log THEN log ELSE log_message(c)
                /\ cache' = IF logs(c)
                            THEN cache_with_key_set(rid, display_recipient(rid))
                            ELSE cache
                /\ result' = [result EXCEPT ![w] = "running"]
                /\ pc' = [pc EXCEPT ![w] = "resolve"]
    /\ UNCHANGED <<is_active, storeVars, Message, UserMessage, nextMessageId,
                   TORNADO_SERVER, posts, txn, snap, sent, resolveVars>>

\* The caller hands over an unsent Message (id None).
do_send_message_begin(w, sender, rid, text, no_log, client) ==
    do_send_message_enter(w, sender, rid, text, text, no_log, client, 0, FALSE)

\* The caller hands over a Message object that was saved before.
do_send_message_again(w, mid, no_log, client) ==
    /\ mid \in Ids(Message)
    /\ LET m == CHOOSE row \in Message : row.id = mid
       IN  do_send_message_enter(w, m.sender, m.recipient, m.content,
                                 m.content, no_log, client, mid, FALSE)

\* log_event raises inside do_send_message.
do_send_message_log_error(w, sender, rid, text, client) ==
    do_send_message_enter(w, sender, rid, text, text, FALSE, client, 0, TRUE)

\* Mutant: the else branch sends to nobody instead of raising.
do_send_message_resolve_lenient(w) ==
    /\ pc[w] = "resolve"
    /\ LET r == RecipientRow(call[w].recipient)
       IN  recipients' = [recipients EXCEPT ![w] =
                              IF r.type = PERSONAL
                              THEN personal_recipients(r.type_id, call[w].sender)
                              ELSE IF r.type = STREAM \/ r.type = HUDDLE
                              THEN subscribed_recipients(r.id)
                              ELSE <<>>]
    /\ pc' = [pc EXCEPT ![w] = "save"]
    /\ snap' = [snap EXCEPT ![w] = [subs |-> ActiveSubscribers(call[w].recipient),
                                     accts |-> ActiveAccounts]]
    /\ UNCHANGED <<is_active, storeVars, Message, UserMessage, nextMessageId,
                   TORNADO_SERVER, cache, log, posts, call, txn, sent, nsends,
                   result, resolveVars>>

\* The if / elif / else on message.recipient.type.
do_send_message_resolve(w) ==
    /\ pc[w] = "resolve"
    /\ LET r == RecipientRow(call[w].recipient)
       IN  IF r.type = PERSONAL
           THEN /\ recipients' = [recipients EXCEPT ![w] =
                                    personal_recipients(r.type_id, call[w].sender)]
                /\ pc' = [pc EXCEPT ![w] = "save"]
                /\ result' = result
           ELSE IF r.type = STREAM \/ r.type = HUDDLE
           THEN /\ recipients' = [recipients EXCEPT ![w] =
                                    subscribed_recipients(r.id)]
                /\ pc' = [pc EXCEPT ![w] = "save"]
                /\ result' = result
           ELSE /\ recipients' = recipients
                /\ pc' = [pc EXCEPT ![w] = "idle"]
                /\ result' = [result EXCEPT ![w] = "ValueError"]
    /\ snap' = [snap EXCEPT ![w] = [subs |-> ActiveSubscribers(call[w].recipient),
                                     accts |-> ActiveAccounts]]
    /\ UNCHANGED <<is_active, storeVars, Message, UserMessage, nextMessageId,
                   TORNADO_SERVER, cache, log, posts, call, txn, sent, nsends,
                   resolveVars>>

\* Mutant: message.save() outside any transaction, committed by the
\* statement itself.
do_send_message_save_autocommit(w) ==
    /\ pc[w] = "save"
    /\ LET mid == IF call[w].saved THEN call[w].id ELSE nextMessageId
           row == [id |-> mid, sender |-> call[w].sender,
                   recipient |-> call[w].recipient,
                   content |-> call[w].content]
       IN  /\ Message' = {m \in Message : m.id # mid} \cup {row}
           /\ call' = [call EXCEPT ![w].id = mid, ![w].i = 1]
           /\ nextMessageId' = IF call[w].saved THEN nextMessageId
                               ELSE nextMessageId + 1
           /\ sent' = IF call[w].saved THEN sent
                      ELSE [m \in DOMAIN sent \cup {mid} |->
                              IF m = mid
                              THEN [sender |-> call[w].sender,
                                    recipient |-> call[w].recipient,
                                    subs |-> snap[w].subs,
                                    accts |-> snap[w].accts,
                                    body |-> call[w].body,
                                    status |-> "open", lost |-> 0]
                              ELSE sent[m]]
    /\ snap' = [snap EXCEPT ![w] = NoSnap]
    /\ pc' = [pc EXCEPT ![w] = "fanout"]
    /\ UNCHANGED <<is_active, storeVars, UserMessage, TORNADO_SERVER, cache, txn,
                   log, posts, recipients, result, nsends, resolveVars>>

\* with transaction.commit_on_success(): message.save()
\* An unsent Message is INSERTed and takes the next id of the sequence; a
\* Message that has an id is UPDATEd in place.
do_send_message_save(w) ==
    /\ pc[w] = "save"
    /\ LET mid == IF call[w].saved THEN call[w].id ELSE nextMessageId
           row == [id |-> mid, sender |-> call[w].sender,
                   recipient |-> call[w].recipient,
                   content |-> call[w].content]
       IN  /\ txn' = [txn EXCEPT ![w] = [Message |-> {row},
                                         UserMessage |-> EmptyBag]]
           /\ call' = [call EXCEPT ![w].id = mid, ![w].i = 1]
           /\ nextMessageId' = IF call[w].saved THEN nextMessageId
                               ELSE nextMessageId + 1
           /\ sent' = IF call[w].saved THEN sent
                      ELSE [m \in DOMAIN sent \cup {mid} |->
                              IF m = mid
                              THEN [sender |-> call[w].sender,
                                    recipient |-> call[w].recipient,
                                    subs |-> snap[w].subs,
                                    accts |-> snap[w].accts,
                                    body |-> call[w].body,
                                    status |-> "open", lost |-> 0]
                              ELSE sent[m]]
    /\ snap' = [snap EXCEPT ![w] = NoSnap]
    /\ pc' = [pc EXCEPT ![w] = "fanout"]
    /\ UNCHANGED <<is_active, storeVars, Message, UserMessage, TORNADO_SERVER, cache,
                   log, posts, recipients, result, nsends, resolveVars>>

\* One turn of "for user_profile in recipients", or the end of the loop.
\* A refused INSERT raises IntegrityError out of the with block, which
\* rolls the transaction back.  An INSERT of a row another open
\* transaction has written waits for that transaction.
do_send_message_fanout(w) ==
    /\ pc[w] = "fanout"
    /\ IF call[w].i > Len(recipients[w])
       THEN /\ pc' = [pc EXCEPT ![w] = "commit"]
            /\ UNCHANGED <<call, txn, result, sent>>
       ELSE LET profile == recipients[w][call[w].i]
                row == [user_profile |-> profile.id, message |-> call[w].id]
            IN  IF ~deliver_to(profile)
                THEN /\ call' = [call EXCEPT ![w].i = @ + 1]
                     /\ UNCHANGED <<pc, txn, result, sent>>
                ELSE /\ \A v \in Workers \ {w} : ~BagIn(row, txn[v].UserMessage)
                     /\ IF UserMessageUnique(UserMessage (+) txn[w].UserMessage, row)
                        THEN /\ txn' = [txn EXCEPT ![w].UserMessage =
                                                     @ (+) SetToBag({row})]
                             /\ call' = [call EXCEPT ![w].i = @ + 1]
                             /\ UNCHANGED <<pc, result, sent>>
                        ELSE /\ txn' = [txn EXCEPT ![w] = NoTxn]
                             /\ call' = [call EXCEPT ![w] = NoCall]
                             /\ pc' = [pc EXCEPT ![w] = "idle"]
                             /\ result' = [result EXCEPT ![w] = "IntegrityError"]
                             /\ sent' = IF call[w].saved THEN sent
                                        ELSE [sent EXCEPT ![call[w].id].status =
                                                              "refused"]
    /\ UNCHANGED <<is_active, storeVars, Message, UserMessage, nextMessageId,
                   TORNADO_SERVER, cache, log, posts, recipients, snap, nsends,
                   resolveVars>>

\* The worker dies, or a statement fails, inside the with block: the
\* store rolls the open transaction back.
do_send_message_abort(w) ==
    /\ pc[w] \in {"fanout", "commit"}
    /\ txn' = [txn EXCEPT ![w] = NoTxn]
    /\ sent' = IF call[w].saved THEN sent
               ELSE [sent EXCEPT ![call[w].id].status = "aborted",
                                 ![call[w].id].lost =
                                     BagCardinality(txn[w].UserMessage)]
    /\ call' = [call EXCEPT ![w] = NoCall]
    /\ recipients' = [recipients EXCEPT ![w] = <<>>]
    /\ pc' = [pc EXCEPT ![w] = "idle"]
    /\ result' = [result EXCEPT ![w] = "aborted"]
    /\ UNCHANGED <<is_active, storeVars, Message, UserMessage, nextMessageId,
                   TORNADO_SERVER, cache, log, posts, snap, nsends, resolveVars>>

\* Mutant: the POST moved into the with block, ahead of the commit.
do_send_message_post_first(w) ==
    /\ pc[w] = "commit"
    /\ pc' = [pc EXCEPT ![w] = "post"]
    /\ UNCHANGED <<is_active, storeVars, Message, UserMessage, txn, sent,
                   nextMessageId, TORNADO_SERVER, cache, log, posts, call, recipients,
                   result, snap, nsends, resolveVars>>

\* Leaving the with block without an exception commits.
do_send_message_commit(w) ==
    /\ pc[w] = "commit"
    /\ Message' = {m \in Message : m.id \notin Ids(txn[w].Message)}
                      \cup txn[w].Message
    /\ UserMessage' = UserMessage (+) txn[w].UserMessage
    /\ txn' = [txn EXCEPT ![w] = NoTxn]
    /\ sent' = IF call[w].saved THEN sent
               ELSE [sent EXCEPT ![call[w].id].status = "committed"]
    /\ pc' = [pc EXCEPT ![w] = "post"]
    /\ UNCHANGED <<is_active, storeVars, nextMessageId, TORNADO_SERVER, cache, log,
                   posts, call, recipients, result, snap, nsends, resolveVars>>

\* Mutant: a failed POST undoes the send.
do_send_message_post_undo(w, reached) ==
    /\ pc[w] = "post"
    /\ TORNADO_SERVER
    /\ posts' = posts \cup
            {[message |-> call[w].id,
              users |-> {recipients[w][k].id : k \in 1..Len(recipients[w])}]}
    /\ result' = [result EXCEPT ![w] =
                      IF reached THEN "ok" ELSE "ConnectionError"]
    /\ Message' = IF reached THEN Message
                  ELSE {m \in Message : m.id # call[w].id}
    /\ UserMessage' = IF reached THEN UserMessage
                      ELSE LET kept == {row \in BagToSet(UserMessage) :
                                           row.message # call[w].id}
                           IN  [row \in kept |-> CopiesIn(row, UserMessage)]
    /\ cache' = cache_with_key_set(call[w].recipient,
                                   display_recipient(call[w].recipient))
    /\ call' = [call EXCEPT ![w] = NoCall]
    /\ recipients' = [recipients EXCEPT ![w] = <<>>]
    /\ pc' = [pc EXCEPT ![w] = "idle"]
    /\ UNCHANGED <<is_active, storeVars, nextMessageId, TORNADO_SERVER, log,
                   txn, snap, sent, nsends, resolveVars>>

\* Mutant: the POST names only the users a row was written for.
do_send_message_post_delivered(w, reached) ==
    /\ pc[w] = "post"
    /\ IF TORNADO_SERVER
       THEN /\ posts' = posts \cup
                    {[message |-> call[w].id,
                      users |-> {recipients[w][k].id : k \in
                                    {j \in 1..Len(recipients[w]) :
                                        deliver_to(recipients[w][j])}}]}
            /\ result' = [result EXCEPT ![w] =
                              IF reached THEN "ok" ELSE "ConnectionError"]
       ELSE /\ reached
            /\ posts' = posts
            /\ result' = [result EXCEPT ![w] = "ok"]
    /\ cache' = IF TORNADO_SERVER
                THEN cache_with_key_set(call[w].recipient,
                                        display_recipient(call[w].recipient))
                ELSE cache
    /\ call' = [call EXCEPT ![w] = NoCall]
    /\ recipients' = [recipients EXCEPT ![w] = <<>>]
    /\ pc' = [pc EXCEPT ![w] = "idle"]
    /\ UNCHANGED <<is_active, storeVars, Message, UserMessage, nextMessageId,
                   TORNADO_SERVER, log, txn, snap, sent, nsends, resolveVars>>

\* if settings.TORNADO_SERVER: message.to_dict(...), which asks
\* get_display_recipient, then requests.post(...), users = every profile
\* of recipients.  requests.post returns, or raises when the gateway cannot
\* be reached.
do_send_message_post(w, reached) ==
    /\ pc[w] = "post"
    /\ IF TORNADO_SERVER
       THEN /\ posts' = posts \cup
                    {[message |-> call[w].id,
                      users |-> {recipients[w][k].id : k \in 1..Len(recipients[w])}]}
            /\ result' = [result EXCEPT ![w] =
                              IF reached THEN "ok" ELSE "ConnectionError"]
       ELSE /\ reached
            /\ posts' = posts
            /\ result' = [result EXCEPT ![w] = "ok"]
    /\ cache' = IF TORNADO_SERVER
                THEN cache_with_key_set(call[w].recipient,
                                        display_recipient(call[w].recipient))
                ELSE cache
    /\ call' = [call EXCEPT ![w] = NoCall]
    /\ recipients' = [recipients EXCEPT ![w] = <<>>]
    /\ pc' = [pc EXCEPT ![w] = "idle"]
    /\ UNCHANGED <<is_active, storeVars, Message, UserMessage, nextMessageId,
                   TORNADO_SERVER, log, txn, snap, sent, nsends, resolveVars>>

(***************************************************************************)
(* The Subscription Ledger and the account switch, each call one step.     *)
(***************************************************************************)
StreamRecipient(stream) ==
    CHOOSE r \in Recipient : r.type = STREAM /\ r.type_id = stream

SubscriptionRows(user, rid) ==
    {s \in Subscription : s.user_profile = user /\ s.recipient = rid}

subscription_event(type, user, stream) ==
    [type |-> type, user |-> user, name |-> stream]

do_add_subscription(user, stream, no_log) ==
    /\ \E r \in Recipient : r.type = STREAM /\ r.type_id = stream
    /\ no_log \/ Len(log) < MaxLog
    /\ LET rid == StreamRecipient(stream).id
           found == SubscriptionRows(user, rid)
           created == found = {}
           subscription == IF created
                           THEN [id |-> NextId(Subscription), user_profile |-> user,
                                 recipient |-> rid, active |-> TRUE]
                           ELSE CHOOSE s \in found : TRUE
           did_subscribe == created \/ ~subscription.active
       IN  /\ Subscription' = (Subscription \ {subscription})
                                  \cup {[subscription EXCEPT !.active = TRUE]}
           /\ log' = IF did_subscribe /\ ~no_log
                     THEN Append(log, subscription_event("subscription_added",
                                                         user, stream))
                     ELSE log
    /\ UNCHANGED <<is_active, Stream, Recipient, Huddle, Client, TORNADO_SERVER, cache,
                   deliveryVars, resolveVars>>

do_remove_subscription(user, stream, no_log) ==
    /\ \E r \in Recipient : r.type = STREAM /\ r.type_id = stream
    /\ no_log \/ Len(log) < MaxLog
    /\ LET rid == StreamRecipient(stream).id
           maybe_sub == SubscriptionRows(user, rid)
       IN  IF maybe_sub = {}
           THEN UNCHANGED <<Subscription, log>>
           ELSE LET subscription == CHOOSE s \in maybe_sub : TRUE
                    did_remove == subscription.active
                IN  /\ Subscription' = (Subscription \ {subscription})
                           \cup {[subscription EXCEPT !.active = FALSE]}
                    /\ log' = IF did_remove /\ ~no_log
                              THEN Append(log, subscription_event(
                                       "subscription_removed", user, stream))
                              ELSE log
    /\ UNCHANGED <<is_active, Stream, Recipient, Huddle, Client, TORNADO_SERVER, cache,
                   deliveryVars, resolveVars>>

do_activate_user(user, logged) ==
    /\ ~logged \/ Len(log) < MaxLog
    /\ is_active' = [is_active EXCEPT ![user] = TRUE]
    /\ log' = IF logged THEN Append(log, [type |-> "user_activated", user |-> user])
              ELSE log
    /\ UNCHANGED <<storeVars, TORNADO_SERVER, cache, deliveryVars, resolveVars>>

(***************************************************************************)
(* get_huddle_hash: sorted(set(id_list)), joined with commas, digested.    *)
(* The digest is taken to be free of collisions: it is the hashed string   *)
(* under a tag.                                                            *)
(***************************************************************************)
Range(seq) == {seq[k] : k \in 1..Len(seq)}

str(x) ==
    CASE x = 0 -> "0" [] x = 1 -> "1" [] x = 2 -> "2" [] x = 3 -> "3"
      [] x = 4 -> "4" [] x = 5 -> "5" [] x = 6 -> "6" [] x = 7 -> "7"
      [] x = 8 -> "8" [] x = 9 -> "9"

RECURSIVE join(_)
join(seq) ==
    IF Len(seq) = 0 THEN ""
    ELSE IF Len(seq) = 1 THEN str(seq[1])
    ELSE str(seq[1]) \o "," \o join(Tail(seq))

sha1(hash_key) == "sha1:" \o hash_key

get_huddle_hash(id_list) == sha1(join(SortedIds(Range(id_list))))

(***************************************************************************)
(* The store the delivery engine runs on: every user has the Personal      *)
(* Recipient and the Subscription to it that UserProfile.create makes; one *)
(* stream "general" and one huddle of all users exist with their           *)
(* Recipients; all users but the last are subscribed to the stream.  The   *)
(* last user's account may be one created with active=False.               *)
(***************************************************************************)
AllUsers == [k \in 1..MaxUser |-> k]

StreamRid == MaxUser + 1
HuddleRid == MaxUser + 2

InitStore ==
    /\ Stream = {[id |-> 1, name |-> "general", realm |-> 1]}
    /\ Huddle = {[id |-> 1, huddle_hash |-> get_huddle_hash(AllUsers)]}
    /\ Client = {}
    /\ Recipient = {[id |-> u, type |-> PERSONAL, type_id |-> u] : u \in UserProfile}
                      \cup {[id |-> StreamRid, type |-> STREAM, type_id |-> 1],
                            [id |-> HuddleRid, type |-> HUDDLE, type_id |-> 1]}
    /\ Subscription =
           {[id |-> u, user_profile |-> u, recipient |-> u, active |-> TRUE]
               : u \in UserProfile}
           \cup {[id |-> MaxUser + u, user_profile |-> u, recipient |-> HuddleRid,
                  active |-> TRUE] : u \in UserProfile}
           \cup {[id |-> 2 * MaxUser + u, user_profile |-> u,
                  recipient |-> StreamRid, active |-> TRUE]
                    : u \in UserProfile \ {MaxUser}}

InitIdle ==
    /\ cache = <<>>
    /\ Message = {}
    /\ UserMessage = EmptyBag
    /\ nextMessageId = 1
    /\ log = <<>>
    /\ posts = {}
    /\ pc = [w \in Workers |-> "idle"]
    /\ call = [w \in Workers |-> NoCall]
    /\ recipients = [w \in Workers |-> <<>>]
    /\ txn = [w \in Workers |-> NoTxn]
    /\ result = [w \in Workers |-> "none"]
    /\ snap = [w \in Workers |-> NoSnap]
    /\ sent = <<>>
    /\ nsends = 0
    /\ rpc = [w \in Workers |-> "idle"]
    /\ rcall = [w \in Workers |-> NoRCall]
    /\ rtxn = [w \in Workers |-> {}]
    /\ done = {}

InitSend ==
    /\ is_active \in {[u \in UserProfile |-> TRUE],
                       [u \in UserProfile |-> u # MaxUser]}
    /\ TORNADO_SERVER \in BOOLEAN
    /\ InitStore
    /\ InitIdle

\* One call of do_send_message on an unsent Message, step by step.
SendStep(w, senders, rids) ==
    \/ \E sender \in senders, rid \in rids :
          do_send_message_begin(w, sender, rid, Content(1), TRUE, "API")
    \/ do_send_message_resolve(w)
    \/ do_send_message_save(w)
    \/ do_send_message_fanout(w)
    \/ do_send_message_abort(w)
    \/ do_send_message_commit(w)
    \/ \E reached \in BOOLEAN : do_send_message_post(w, reached)

\* What other requests do to the store while a send runs.
LedgerStep ==
    \/ do_add_subscription(MaxUser, 1, TRUE)
    \/ do_remove_subscription(1, 1, TRUE)
    \/ do_activate_user(MaxUser, FALSE)

NextSend ==
    \/ \E w \in Workers : SendStep(w, {1}, {StreamRid, HuddleRid})
    \/ LedgerStep

SpecSend == InitSend /\ [][NextSend]_vars

\* The same, with callers that also send a Message object a second time.
NextResend ==
    \/ NextSend
    \/ \E w \in Workers, mid \in Ids(Message) :
          do_send_message_again(w, mid, TRUE, "API")

SpecResend == InitSend /\ [][NextResend]_vars

\* Personal messages between the first and the last user, to themselves and
\* to each other; either account may have been created with active=False
\* and may be activated at any time.
Parties == {1, MaxUser}

InitPersonal ==
    /\ is_active \in {f \in [UserProfile -> BOOLEAN] :
                          \A u \in UserProfile \ Parties : f[u]}
    /\ TORNADO_SERVER \in BOOLEAN
    /\ InitStore
    /\ InitIdle

NextPersonal ==
    \/ \E w \in Workers : SendStep(w, Parties, Parties)
    \/ \E u \in Parties : do_activate_user(u, FALSE)

SpecPersonal == InitPersonal /\ [][NextPersonal]_vars

\* The steps of a send after it has been entered.
DeliverStep(w) ==
    \/ do_send_message_resolve(w)
    \/ do_send_message_save(w)
    \/ do_send_message_fanout(w)
    \/ do_send_message_abort(w)
    \/ do_send_message_commit(w)
    \/ \E reached \in BOOLEAN : do_send_message_post(w, reached)

\* Sends to the stream with and without no_log, from a client that is
\* logged and from one whose name starts with "test:"; the log may fail.
LogClients == {"API", "test:client"}

NextLog ==
    \E w \in Workers :
        \/ \E no_log \in BOOLEAN, client \in LogClients :
              do_send_message_begin(w, 1, StreamRid, Content(1), no_log, client)
        \/ do_send_message_log_error(w, 1, StreamRid, Content(1), "API")
        \/ DeliverStep(w)

SpecLog == InitSend /\ [][NextLog]_vars

(***************************************************************************)
(* The resolvers.  QuerySet.get_or_create looks the row up, INSERTs it     *)
(* when the lookup finds none, and, when the store refuses the INSERT      *)
(* because another worker has written the row meanwhile, looks it up once  *)
(* more; when that second lookup does not see the row either (its snapshot *)
(* is older than the row) the IntegrityError is raised to the caller, the  *)
(* case the comment in get_client describes.  Both outcomes of a refused   *)
(* INSERT are modelled: "raised" tells which one happens.                  *)
(*                                                                         *)
(* create_stream_if_needed and get_huddle open no transaction: each of     *)
(* their INSERTs is committed by the statement.  get_client runs under     *)
(* commit_on_success.                                                      *)
(***************************************************************************)
Names == {"general", "General", "signups"}

\* The case folding of a name__iexact lookup.
lower(name) == IF name = "General" THEN "general" ELSE name

IdLists == UNION {[1..n -> UserProfile] : n \in 1..MaxIdListLen}

Running == {w \in Workers : rpc[w] # "idle"}

\* A new call: its arguments, nothing found or made yet.
NewCall(op, realm, name, id_list) ==
    [op |-> op, n |-> Cardinality(done) + Cardinality(Running) + 1,
     realm |-> realm, name |-> name, id_list |-> id_list,
     obj |-> 0, created |-> FALSE, i |-> 0, raced |-> FALSE]

\* The call of worker w ends: it returns obj, or raises.
Ended(w, outcome, obj, created) ==
    [op |-> rcall[w].op, n |-> rcall[w].n, realm |-> rcall[w].realm,
     name |-> rcall[w].name, id_list |-> rcall[w].id_list,
     outcome |-> outcome, obj |-> obj, created |-> created,
     raced |-> rcall[w].raced]

Return(w, outcome, obj, created) ==
    /\ done' = done \cup {Ended(w, outcome, obj, created)}
    /\ rpc' = [rpc EXCEPT ![w] = "idle"]
    /\ rcall' = [rcall EXCEPT ![w] = NoRCall]

Begin(w, first, c, limit) ==
    /\ rpc[w] = "idle"
    /\ pc[w] = "idle"
    /\ Cardinality(done) + Cardinality(Running) < limit
    /\ rpc' = [rpc EXCEPT ![w] = first]
    /\ rcall' = [rcall EXCEPT ![w] = c]
    /\ UNCHANGED <<is_active, storeVars, TORNADO_SERVER, cache, sendVars, rtxn, done>>

\* Stream.Meta.unique_together = ("name", "realm"): the columns as stored.
StreamUnique(row) ==
    ~\E r \in Stream : r.name = row.name /\ r.realm = row.realm

\* Stream.objects.get(realm=realm, name__iexact=stream_name)
StreamLookup(realm, name) ==
    {r \in Stream : r.realm = realm /\ lower(r.name) = lower(name)}

create_stream_if_needed_begin(w, realm, stream_name) ==
    Begin(w, "stream_get", NewCall("create_stream_if_needed", realm, stream_name, <<>>),
          MaxCalls)

\* get_or_create, the lookup.  get() raises when it finds several rows.
create_stream_if_needed_get(w) ==
    /\ rpc[w] = "stream_get"
    /\ LET found == StreamLookup(rcall[w].realm, rcall[w].name)
       IN  IF found = {}
           THEN /\ rpc' = [rpc EXCEPT ![w] = "stream_create"]
                /\ UNCHANGED <<rcall, done>>
           ELSE IF Cardinality(found) = 1
           THEN Return(w, "ok", (CHOOSE r \in found : TRUE).id, FALSE)
           ELSE Return(w, "MultipleObjectsReturned", 0, FALSE)
    /\ UNCHANGED <<is_active, storeVars, TORNADO_SERVER, cache, sendVars, rtxn>>

\* get_or_create, the INSERT with defaults={'name': stream_name}.
create_stream_if_needed_create(w, raised) ==
    /\ rpc[w] = "stream_create"
    /\ LET row == [id |-> NextId(Stream), name |-> rcall[w].name,
                   realm |-> rcall[w].realm]
           found == StreamLookup(rcall[w].realm, rcall[w].name)
       IN  IF StreamUnique(row)
           THEN /\ ~raised
                /\ Stream' = Stream \cup {row}
                /\ rcall' = [rcall EXCEPT ![w].obj = row.id, ![w].created = TRUE]
                /\ rpc' = [rpc EXCEPT ![w] = "stream_recipient"]
                /\ done' = done
           ELSE /\ Stream' = Stream
                /\ IF raised \/ Cardinality(found) # 1
                   THEN Return(w, "IntegrityError", 0, FALSE)
                   ELSE Return(w, "ok", (CHOOSE r \in found : TRUE).id, FALSE)
    /\ UNCHANGED <<is_active, Recipient, Huddle, Client, Subscription,
                   TORNADO_SERVER, cache, sendVars, rtxn>>

\* if created: Recipient.objects.create(type_id=stream.id, type=STREAM)
create_stream_if_needed_recipient(w) ==
    /\ rpc[w] = "stream_recipient"
    /\ Recipient' = Recipient \cup {[id |-> NextId(Recipient), type |-> STREAM,
                                      type_id |-> rcall[w].obj]}
    /\ Return(w, "ok", rcall[w].obj, TRUE)
    /\ UNCHANGED <<is_active, Stream, Huddle, Client, Subscription,
                   TORNADO_SERVER, cache, sendVars, rtxn>>

\* The store the resolvers start on: the users with their Personal
\* Recipients and Subscriptions, no stream, no huddle, no client.
InitResolve ==
    /\ is_active = [u \in UserProfile |-> TRUE]
    /\ TORNADO_SERVER = FALSE
    /\ Stream = {}
    /\ Huddle = {}
    /\ Client = {}
    /\ Recipient = {[id |-> u, type |-> PERSONAL, type_id |-> u] : u \in UserProfile}
    /\ Subscription =
           {[id |-> u, user_profile |-> u, recipient |-> u, active |-> TRUE]
               : u \in UserProfile}
    /\ InitIdle

NextStream ==
    \E w \in Workers :
        \/ \E name \in Names : create_stream_if_needed_begin(w, 1, name)
        \/ create_stream_if_needed_get(w)
        \/ \E raised \in BOOLEAN : create_stream_if_needed_create(w, raised)
        \/ create_stream_if_needed_recipient(w)

SpecStream == InitResolve /\ [][NextStream]_vars

(***************************************************************************)
(* get_huddle(id_list).                                                    *)
(***************************************************************************)
\* Huddle.huddle_hash is unique=True.
HuddleUnique(row) == ~\E h \in Huddle : h.huddle_hash = row.huddle_hash

\* Subscription.Meta.unique_together = ("user_profile", "recipient")
SubscriptionUnique(row) ==
    ~\E s \in Subscription :
        s.user_profile = row.user_profile /\ s.recipient = row.recipient

HuddleLookup(huddle_hash) == {h \in Huddle : h.huddle_hash = huddle_hash}

get_huddle_begin(w, id_list) ==
    Begin(w, "huddle_get", NewCall("get_huddle", 0, "", id_list), MaxHuddleCalls)

\* huddle_hash = get_huddle_hash(id_list); get_or_create, the lookup.
get_huddle_get(w) ==
    /\ rpc[w] = "huddle_get"
    /\ LET found == HuddleLookup(get_huddle_hash(rcall[w].id_list))
       IN  IF found = {}
           THEN /\ rpc' = [rpc EXCEPT ![w] = "huddle_create"]
                /\ UNCHANGED <<rcall, done>>
           ELSE IF Cardinality(found) = 1
           THEN Return(w, "ok", (CHOOSE h \in found : TRUE).id, FALSE)
           ELSE Return(w, "MultipleObjectsReturned", 0, FALSE)
    /\ UNCHANGED <<is_active, storeVars, TORNADO_SERVER, cache, sendVars, rtxn>>

\* get_or_create, the INSERT.
get_huddle_create(w, raised) ==
    /\ rpc[w] = "huddle_create"
    /\ LET row == [id |-> NextId(Huddle),
                   huddle_hash |-> get_huddle_hash(rcall[w].id_list)]
           found == HuddleLookup(row.huddle_hash)
       IN  IF HuddleUnique(row)
           THEN /\ ~raised
                /\ Huddle' = Huddle \cup {row}
                /\ rcall' = [rcall EXCEPT ![w].obj = row.id, ![w].created = TRUE]
                /\ rpc' = [rpc EXCEPT ![w] = "huddle_recipient"]
                /\ done' = done
           ELSE /\ Huddle' = Huddle
                /\ IF raised \/ Cardinality(found) # 1
                   THEN Return(w, "IntegrityError", 0, FALSE)
                   ELSE Return(w, "ok", (CHOOSE h \in found : TRUE).id, FALSE)
    /\ UNCHANGED <<is_active, Stream, Recipient, Client, Subscription,
                   TORNADO_SERVER, cache, sendVars, rtxn>>

\* if created: recipient = Recipient.objects.create(type_id=huddle.id, ...)
get_huddle_recipient(w) ==
    /\ rpc[w] = "huddle_recipient"
    /\ Recipient' = Recipient \cup {[id |-> NextId(Recipient), type |-> HUDDLE,
                                      type_id |-> rcall[w].obj]}
    /\ rcall' = [rcall EXCEPT ![w].i = 1]
    /\ rpc' = [rpc EXCEPT ![w] = "huddle_subs"]
    /\ UNCHANGED <<is_active, Stream, Huddle, Client, Subscription,
                   TORNADO_SERVER, cache, sendVars, rtxn, done>>

\* One turn of "for uid in id_list: Subscription.objects.create(...)", or
\* the end of the loop and "return huddle".  A refused INSERT raises
\* IntegrityError out of get_huddle; what was written before stays.
get_huddle_subscribe(w) ==
    /\ rpc[w] = "huddle_subs"
    /\ LET recipient == CHOOSE r \in Recipient :
                            r.type = HUDDLE /\ r.type_id = rcall[w].obj
       IN  IF rcall[w].i > Len(rcall[w].id_list)
           THEN /\ Return(w, "ok", rcall[w].obj, TRUE)
                /\ Subscription' = Subscription
           ELSE LET row == [id |-> NextId(Subscription),
                            user_profile |-> rcall[w].id_list[rcall[w].i],
                            recipient |-> recipient.id, active |-> TRUE]
                IN  IF SubscriptionUnique(row)
                    THEN /\ Subscription' = Subscription \cup {row}
                         /\ rcall' = [rcall EXCEPT ![w].i = @ + 1]
                         /\ UNCHANGED <<rpc, done>>
                    ELSE /\ Subscription' = Subscription
                         /\ Return(w, "IntegrityError", rcall[w].obj, TRUE)
    /\ UNCHANGED <<is_active, Stream, Recipient, Huddle, Client,
                   TORNADO_SERVER, cache, sendVars, rtxn>>

HuddleStep(w) ==
    \/ \E id_list \in IdLists : get_huddle_begin(w, id_list)
    \/ get_huddle_get(w)
    \/ \E raised \in BOOLEAN : get_huddle_create(w, raised)
    \/ get_huddle_recipient(w)
    \/ get_huddle_subscribe(w)

NextHuddle == \E w \in Workers : HuddleStep(w)

SpecHuddle == InitResolve /\ [][NextHuddle]_vars

\* get_huddle called by one worker, one call after the other.
NextHuddleAlone == HuddleStep(1)

SpecHuddleAlone == InitResolve /\ [][NextHuddleAlone]_vars

(***************************************************************************)
(* A call of get_display_recipient(recipient) by any process (to_log_dict, *)
(* to_dict): the value comes from the cache under the Recipient's id, or   *)
(* is computed from the rows and put there.  Nothing in models.py removes  *)
(* or rewrites an entry.                                                   *)
(***************************************************************************)
get_display_recipient_call(rid) ==
    /\ rid \in Ids(Recipient)
    /\ rid \notin DOMAIN cache
    /\ cache' = cache_with_key_set(rid, display_recipient(rid))
    /\ UNCHANGED <<is_active, storeVars, TORNADO_SERVER, sendVars, resolveVars>>

\* One process in get_huddle, the callers of get_display_recipient beside it.
NextDisplay ==
    \/ HuddleStep(1)
    \/ \E rid \in Ids(Recipient) : get_display_recipient_call(rid)

SpecDisplay == InitResolve /\ [][NextDisplay]_vars

(***************************************************************************)
(* get_client(name), under @transaction.commit_on_success: the INSERT of   *)
(* get_or_create is in the worker's transaction and commits when           *)
(* get_client returns.  An INSERT of a name another open transaction has   *)
(* written waits until that transaction ends.                              *)
(***************************************************************************)
ClientNames == {"API", "Internal"}

\* Client.name is unique=True.
ClientUnique(row) == ~\E c \in Client : c.name = row.name

ClientLookup(name) == {c \in Client : c.name = name}

PendingClients == UNION {rtxn[v] : v \in Workers}

get_client_begin(w, name) ==
    Begin(w, "client_get", NewCall("get_client", 0, name, <<>>), MaxCalls)

\* get_or_create, the lookup.
get_client_get(w) ==
    /\ rpc[w] = "client_get"
    /\ LET found == ClientLookup(rcall[w].name)
       IN  IF found = {}
           THEN /\ rpc' = [rpc EXCEPT ![w] = "client_create"]
                /\ UNCHANGED <<rcall, done>>
           ELSE IF Cardinality(found) = 1
           THEN Return(w, "ok", (CHOOSE c \in found : TRUE).id, FALSE)
           ELSE Return(w, "MultipleObjectsReturned", 0, FALSE)
    /\ UNCHANGED <<is_active, storeVars, TORNADO_SERVER, cache, sendVars, rtxn>>

\* get_or_create, the INSERT.
get_client_create(w, raised) ==
    /\ rpc[w] = "client_create"
    /\ \A v \in Workers \ {w} : \A c \in rtxn[v] : c.name # rcall[w].name
    /\ LET row == [id |-> Cardinality(Client \cup PendingClients) + 1,
                   name |-> rcall[w].name]
           found == ClientLookup(rcall[w].name)
       IN  IF ClientUnique(row)
           THEN /\ ~raised
                /\ rtxn' = [rtxn EXCEPT ![w] = {row}]
                /\ rcall' = [rcall EXCEPT ![w].obj = row.id, ![w].created = TRUE]
                /\ rpc' = [rpc EXCEPT ![w] = "client_commit"]
                /\ done' = done
           ELSE /\ rtxn' = rtxn
                /\ IF raised \/ Cardinality(found) # 1
                   THEN /\ rcall' = [rcall EXCEPT ![w].raced = TRUE]
                        /\ rpc' = [rpc EXCEPT ![w] = "client_except"]
                        /\ done' = done
                   ELSE Return(w, "ok", (CHOOSE c \in found : TRUE).id, FALSE)
    /\ UNCHANGED <<is_active, storeVars, TORNADO_SERVER, cache, sendVars>>

\* Mutant: get_client without its except clause.
get_client_reraise(w) ==
    /\ rpc[w] = "client_except"
    /\ Return(w, "IntegrityError", 0, FALSE)
    /\ UNCHANGED <<is_active, storeVars, TORNADO_SERVER, cache, sendVars, rtxn>>

\* except IntegrityError: transaction.commit();
\*                        return Client.objects.get(name=name)
get_client_except(w) ==
    /\ rpc[w] = "client_except"
    /\ LET found == ClientLookup(rcall[w].name)
       IN  IF Cardinality(found) = 1
           THEN Return(w, "ok", (CHOOSE c \in found : TRUE).id, FALSE)
           ELSE IF found = {}
           THEN Return(w, "DoesNotExist", 0, FALSE)
           ELSE Return(w, "MultipleObjectsReturned", 0, FALSE)
    /\ UNCHANGED <<is_active, storeVars, TORNADO_SERVER, cache, sendVars, rtxn>>

\* return client: commit_on_success commits the INSERT.
get_client_commit(w) ==
    /\ rpc[w] = "client_commit"
    /\ Client' = Client \cup rtxn[w]
    /\ rtxn' = [rtxn EXCEPT ![w] = {}]
    /\ Return(w, "ok", rcall[w].obj, TRUE)
    /\ UNCHANGED <<is_active, Stream, Recipient, Huddle, Subscription,
                   TORNADO_SERVER, cache, sendVars>>

NextClient ==
    \E w \in Workers :
        \/ \E name \in ClientNames : get_client_begin(w, name)
        \/ get_client_get(w)
        \/ \E raised \in BOOLEAN : get_client_create(w, raised)
        \/ get_client_except(w)
        \/ get_client_commit(w)

SpecClient == InitResolve /\ [][NextClient]_vars

(***************************************************************************)
(* do_add_subscription and do_remove_subscription, statement by statement, *)
(* as concurrent workers run them.  Neither opens a transaction: every     *)
(* statement is committed by itself, and "subscription" is the worker's    *)
(* copy of the row as its query read it.  The fields before, changed and   *)
(* logged of a call are history: the state of the row when the call was    *)
(* made, the number of times the call's writes changed the row's active    *)
(* state (its creation included), and the number of events it appended.    *)
(***************************************************************************)
NoSubscription == [id |-> 0, user_profile |-> 0, recipient |-> 0, active |-> FALSE]

RowState(user, stream) ==
    LET rows == SubscriptionRows(user, StreamRecipient(stream).id)
    IN  IF rows = {} THEN "absent"
        ELSE IF \E s \in rows : s.active THEN "active" ELSE "inactive"

NewLedgerCall(op, user, stream, no_log) ==
    [op |-> op, n |-> Cardinality(done) + Cardinality(Running) + 1,
     user |-> user, stream |-> stream, no_log |-> no_log,
     subscription |-> NoSubscription, created |-> FALSE, did |-> FALSE,
     before |-> RowState(user, stream), changed |-> 0, logged |-> 0]

LedgerReturn(w, outcome, ret, logged) ==
    /\ done' = done \cup {[op |-> rcall[w].op, n |-> rcall[w].n,
                           user |-> rcall[w].user, stream |-> rcall[w].stream,
                           no_log |-> rcall[w].no_log,
                           before |-> rcall[w].before, outcome |-> outcome,
                           ret |-> ret, changed |-> rcall[w].changed,
                           logged |-> logged]}
    /\ rpc' = [rpc EXCEPT ![w] = "idle"]
    /\ rcall' = [rcall EXCEPT ![w] = NoRCall]

\* subscription.save(): UPDATE of the row with the object's primary key.
SaveSubscription(subscription) ==
    {s \in Subscription : s.id # subscription.id} \cup {subscription}

StoredActive(subscription) ==
    \E s \in Subscription : s.id = subscription.id /\ s.active

\* recipient = Recipient.objects.get(type_id=stream.id, type=Recipient.STREAM)
do_add_subscription_begin(w, user, stream, no_log) ==
    /\ \E r \in Recipient : r.type = STREAM /\ r.type_id = stream
    /\ Begin(w, "add_get",
             NewLedgerCall("do_add_subscription", user, stream, no_log), MaxCalls)

\* get_or_create, the lookup.
do_add_subscription_get(w) ==
    /\ rpc[w] = "add_get"
    /\ LET found == SubscriptionRows(rcall[w].user,
                                     StreamRecipient(rcall[w].stream).id)
       IN  IF found = {}
           THEN /\ rpc' = [rpc EXCEPT ![w] = "add_create"]
                /\ rcall' = rcall
           ELSE /\ rpc' = [rpc EXCEPT ![w] = "add_save"]
                /\ rcall' = [rcall EXCEPT ![w].subscription =
                                              CHOOSE s \in found : TRUE]
    /\ UNCHANGED <<is_active, storeVars, TORNADO_SERVER, cache, sendVars, rtxn,
                   done>>

\* get_or_create, the INSERT with defaults={'active': True}.
do_add_subscription_create(w, raised) ==
    /\ rpc[w] = "add_create"
    /\ LET row == [id |-> NextId(Subscription), user_profile |-> rcall[w].user,
                   recipient |-> StreamRecipient(rcall[w].stream).id,
                   active |-> TRUE]
           found == SubscriptionRows(row.user_profile, row.recipient)
       IN  IF SubscriptionUnique(row)
           THEN /\ ~raised
                /\ Subscription' = Subscription \cup {row}
                /\ rcall' = [rcall EXCEPT ![w].subscription = row,
                                          ![w].created = TRUE,
                                          ![w].changed = @ + 1]
                /\ rpc' = [rpc EXCEPT ![w] = "add_save"]
                /\ done' = done
           ELSE /\ Subscription' = Subscription
                /\ IF raised
                   THEN LedgerReturn(w, "IntegrityError", FALSE, 0)
                   ELSE /\ rcall' = [rcall EXCEPT ![w].subscription =
                                                      CHOOSE s \in found : TRUE]
                        /\ rpc' = [rpc EXCEPT ![w] = "add_save"]
                        /\ done' = done
    /\ UNCHANGED <<is_active, Stream, Recipient, Huddle, Client,
                   TORNADO_SERVER, cache, sendVars, rtxn>>

\* Mutant: a reactivation is not reported.
did_subscribe_created(created, subscription) == created

\* did_subscribe = created; if not subscription.active: did_subscribe = True
did_subscribe(created, subscription) == created \/ ~subscription.active

\* if not subscription.active: subscription.active = True; subscription.save()
do_add_subscription_save(w) ==
    /\ rpc[w] = "add_save"
    /\ LET subscription == rcall[w].subscription
       IN  /\ Subscription' = IF ~subscription.active
                              THEN SaveSubscription([subscription EXCEPT
                                                         !.active = TRUE])
                              ELSE Subscription
           /\ rcall' = [rcall EXCEPT
                  ![w].did = did_subscribe(rcall[w].created, subscription),
                  ![w].subscription.active = TRUE,
                  ![w].changed = IF ~subscription.active
                                    /\ ~StoredActive(subscription)
                                 THEN @ + 1 ELSE @]
    /\ rpc' = [rpc EXCEPT ![w] = "add_return"]
    /\ UNCHANGED <<is_active, Stream, Recipient, Huddle, Client,
                   TORNADO_SERVER, cache, sendVars, rtxn, done>>

\* if did_subscribe and not no_log: log_event(...); return did_subscribe
do_add_subscription_return(w) ==
    /\ rpc[w] = "add_return"
    /\ LET logged == rcall[w].did /\ ~rcall[w].no_log
       IN  /\ log' = IF logged
                     THEN Append(log, subscription_event("subscription_added",
                                          rcall[w].user, rcall[w].stream))
                     ELSE log
           /\ LedgerReturn(w, "ok", rcall[w].did, IF logged THEN 1 ELSE 0)
    /\ UNCHANGED <<is_active, storeVars, TORNADO_SERVER, cache, deliveryVars,
                   rtxn>>

do_remove_subscription_begin(w, user, stream, no_log) ==
    /\ \E r \in Recipient : r.type = STREAM /\ r.type_id = stream
    /\ Begin(w, "remove_filter",
             NewLedgerCall("do_remove_subscription", user, stream, no_log),
             MaxCalls)

\* maybe_sub = Subscription.objects.filter(...); if len(maybe_sub) == 0:
\* return False; subscription = maybe_sub[0]; did_remove = subscription.active
do_remove_subscription_filter(w) ==
    /\ rpc[w] = "remove_filter"
    /\ LET maybe_sub == SubscriptionRows(rcall[w].user,
                                         StreamRecipient(rcall[w].stream).id)
       IN  IF maybe_sub = {}
           THEN LedgerReturn(w, "ok", FALSE, 0)
           ELSE LET subscription == CHOOSE s \in maybe_sub : TRUE
                IN  /\ rcall' = [rcall EXCEPT ![w].subscription = subscription,
                                              ![w].did = subscription.active]
                    /\ rpc' = [rpc EXCEPT ![w] = "remove_save"]
                    /\ done' = done
    /\ UNCHANGED <<is_active, storeVars, TORNADO_SERVER, cache, sendVars, rtxn>>

\* Mutant: the row is deleted instead of being marked.
do_remove_subscription_delete(w) ==
    /\ rpc[w] = "remove_save"
    /\ Subscription' = {s \in Subscription : s.id # rcall[w].subscription.id}
    /\ rcall' = [rcall EXCEPT ![w].changed =
                                  IF StoredActive(rcall[w].subscription)
                                  THEN @ + 1 ELSE @]
    /\ rpc' = [rpc EXCEPT ![w] = "remove_return"]
    /\ UNCHANGED <<is_active, Stream, Recipient, Huddle, Client,
                   TORNADO_SERVER, cache, sendVars, rtxn, done>>

\* subscription.active = False; subscription.save()
do_remove_subscription_save(w) ==
    /\ rpc[w] = "remove_save"
    /\ Subscription' = SaveSubscription([rcall[w].subscription EXCEPT
                                             !.active = FALSE])
    /\ rcall' = [rcall EXCEPT ![w].changed =
                                  IF StoredActive(rcall[w].subscription)
                                  THEN @ + 1 ELSE @]
    /\ rpc' = [rpc EXCEPT ![w] = "remove_return"]
    /\ UNCHANGED <<is_active, Stream, Recipient, Huddle, Client,
                   TORNADO_SERVER, cache, sendVars, rtxn, done>>

\* if did_remove and not no_log: log_event(...); return did_remove
do_remove_subscription_return(w) ==
    /\ rpc[w] = "remove_return"
    /\ LET logged == rcall[w].did /\ ~rcall[w].no_log
       IN  /\ log' = IF logged
                     THEN Append(log, subscription_event("subscription_removed",
                                          rcall[w].user, rcall[w].stream))
                     ELSE log
           /\ LedgerReturn(w, "ok", rcall[w].did, IF logged THEN 1 ELSE 0)
    /\ UNCHANGED <<is_active, storeVars, TORNADO_SERVER, cache, deliveryVars,
                   rtxn>>

\* The ledger calls of one worker, for the first and the last user on the
\* stream of InitStore: the first user is subscribed, the last has no row.
LedgerCalls(w, no_logs) ==
    \/ \E user \in Parties, no_log \in no_logs :
          do_add_subscription_begin(w, user, 1, no_log)
    \/ do_add_subscription_get(w)
    \/ \E raised \in BOOLEAN : do_add_subscription_create(w, raised)
    \/ do_add_subscription_save(w)
    \/ do_add_subscription_return(w)
    \/ \E user \in Parties, no_log \in no_logs :
          do_remove_subscription_begin(w, user, 1, no_log)
    \/ do_remove_subscription_filter(w)
    \/ do_remove_subscription_save(w)
    \/ do_remove_subscription_return(w)

InitLedger ==
    /\ is_active = [u \in UserProfile |-> TRUE]
    /\ TORNADO_SERVER = FALSE
    /\ InitStore
    /\ InitIdle

\* Concurrent calls, logging enabled.
NextLedger == \E w \in Workers : LedgerCalls(w, {FALSE})

SpecLedger == InitLedger /\ [][NextLedger]_vars

\* One call after the other, with and without logging.
NextLedgerAlone == LedgerCalls(1, BOOLEAN)

SpecLedgerAlone == InitLedger /\ [][NextLedgerAlone]_vars

(***************************************************************************)
(* internal_send_message(sender_email, recipient_type, recipient_name,     *)
(* subject, content): the content is cut when it is too long, the stream   *)
(* and the client are resolved, and the message goes to do_send_message.   *)
(* The step is taken when the stream of that name and the client           *)
(* "Internal" exist, so that create_stream_if_needed and get_client find   *)
(* their rows and write nothing; get_client's own steps make the client.   *)
(***************************************************************************)
internal_content(text) ==
    IF len(text) > MAX_MESSAGE_LENGTH THEN truncate(text) ELSE text

internal_send_message(w, sender, recipient_type, recipient_name, text) ==
    /\ Cardinality(StreamLookup(1, recipient_name)) = 1
    /\ Cardinality(ClientLookup("Internal")) = 1
    /\ LET stream == CHOOSE row \in StreamLookup(1, recipient_name) : TRUE
           found == {r \in Recipient : r.type_id = stream.id
                                         /\ r.type = recipient_type}
       IN  /\ found # {}
           /\ do_send_message_enter(w, sender, (CHOOSE r \in found : TRUE).id,
                                    internal_content(text), text, FALSE,
                                    "Internal", 0, FALSE)

\* Bodies at and over the limit, sent through internal_send_message and
\* handed to do_send_message directly.
Bodies == {Content(MAX_MESSAGE_LENGTH), Content(MAX_MESSAGE_LENGTH + 1)}

NextContent ==
    \E w \in Workers :
        \/ get_client_begin(w, "Internal")
        \/ get_client_get(w)
        \/ \E raised \in BOOLEAN : get_client_create(w, raised)
        \/ get_client_except(w)
        \/ get_client_commit(w)
        \/ \E text \in Bodies : internal_send_message(w, 1, STREAM, "general", text)
        \/ \E text \in Bodies :
              do_send_message_begin(w, 1, StreamRid, text, TRUE, "API")
        \/ DeliverStep(w)

SpecContent == InitLedger /\ [][NextContent]_vars

(***************************************************************************)
(* Message.remove_unreachable(): one DELETE of the Messages whose id is    *)
(* not among UserMessage.message_id, as the committed tables have them.    *)
(***************************************************************************)
\* Mutant: filter(id__in=...) in place of exclude(id__in=...).
Referenced ==
    {m \in Message : \E row \in BagToSet(UserMessage) : row.message = m.id}

\* Message.objects.exclude(id__in = UserMessage.objects.values('message_id'))
Unreachable ==
    {m \in Message : ~\E row \in BagToSet(UserMessage) : row.message = m.id}

remove_unreachable ==
    /\ Message' = Message \ Unreachable
    /\ UNCHANGED <<is_active, storeVars, UserMessage, nextMessageId,
                   TORNADO_SERVER, cache, log, posts, pc, call, recipients,
                   txn, result, snap, sent, nsends, resolveVars>>

\* The last user, whose account may be deactivated, sends personal
\* messages to themselves and to the first user; the account may be
\* activated and the sweep may run at any time.
NextSweep ==
    \/ \E w \in Workers :
          \/ \E rid \in Parties :
                do_send_message_begin(w, MaxUser, rid, Content(1), TRUE, "API")
          \/ DeliverStep(w)
    \/ do_activate_user(MaxUser, FALSE)
    \/ remove_unreachable

SpecSweep == InitPersonal /\ [][NextSweep]_vars

(***************************************************************************)
(* Sends of the last user to themselves and to the stream, whose two       *)
(* subscribers may leave; the first and the last account may have been     *)
(* created with active=False and may be activated at any time.             *)
(***************************************************************************)
NextFanout ==
    \/ \E w \in Workers :
          \/ \E rid \in {MaxUser, StreamRid} :
                do_send_message_begin(w, MaxUser, rid, Content(1), TRUE, "API")
          \/ DeliverStep(w)
    \/ \E u \in UserProfile \ {MaxUser} : do_remove_subscription(u, 1, TRUE)
    \/ \E u \in Parties : do_activate_user(u, FALSE)

SpecFanout == InitPersonal /\ [][NextFanout]_vars

(***************************************************************************)
(* A store with a Recipient row whose type is none of the three:           *)
(* Recipient.type is a PositiveSmallIntegerField without choices, so the   *)
(* table accepts such a row.                                               *)
(***************************************************************************)
BadRid == MaxUser + 3

InitBadType ==
    /\ is_active = [u \in UserProfile |-> TRUE]
    /\ TORNADO_SERVER \in BOOLEAN
    /\ Stream = {[id |-> 1, name |-> "general", realm |-> 1]}
    /\ Huddle = {[id |-> 1, huddle_hash |-> get_huddle_hash(AllUsers)]}
    /\ Client = {}
    /\ Recipient = {[id |-> u, type |-> PERSONAL, type_id |-> u] : u \in UserProfile}
                      \cup {[id |-> StreamRid, type |-> STREAM, type_id |-> 1],
                            [id |-> HuddleRid, type |-> HUDDLE, type_id |-> 1],
                            [id |-> BadRid, type |-> HUDDLE + 1, type_id |-> 1]}
    /\ Subscription =
           {[id |-> u, user_profile |-> u, recipient |-> u, active |-> TRUE]
               : u \in UserProfile}
           \cup {[id |-> MaxUser + u, user_profile |-> u, recipient |-> r,
                  active |-> TRUE] : u \in UserProfile, r \in {BadRid}}
           \cup {[id |-> 2 * MaxUser + u, user_profile |-> u,
                  recipient |-> StreamRid, active |-> TRUE] : u \in UserProfile}
    /\ InitIdle

\* Sends to the stream and to the Recipient of the unknown type, logged and
\* not logged.
NextBadType ==
    \E w \in Workers :
        \/ \E rid \in {StreamRid, BadRid}, no_log \in BOOLEAN :
              do_send_message_begin(w, 1, rid, Content(1), no_log, "API")
        \/ DeliverStep(w)

SpecBadType == InitBadType /\ [][NextBadType]_vars

(***************************************************************************)
(* What the history variable "sent" says of a Message id.                  *)
(***************************************************************************)
Rows(mid) == {row \in BagToSet(UserMessage) : row.message = mid}

RowCount(mid) ==
    BagCardinality([row \in Rows(mid) |-> CopiesIn(row, UserMessage)])

Receivers(mid) == {row.user_profile : row \in Rows(mid)}

Committed(mid) == mid \in DOMAIN sent /\ sent[mid].status = "committed"

SentTo(mid, types) == RecipientRow(sent[mid].recipient).type \in types

\* The users the send of mid had to write a row for: the parties of a
\* personal message, or the users with an active Subscription when the
\* send read them; of these, the ones whose account was active then.
Party(mid) == {RecipientRow(sent[mid].recipient).type_id, sent[mid].sender}

Due(mid) ==
    (IF SentTo(mid, {PERSONAL}) THEN Party(mid) ELSE sent[mid].subs)
        \cap sent[mid].accts

(***************************************************************************)
(* C1.  After any sequence or interleaving of do_send_message calls, also  *)
(* of calls that send a Message object again, no two UserMessage rows      *)
(* share the same (user_profile, message): every row of the table is there *)
(* once.                                                                   *)
(***************************************************************************)
C1_UserMessageUnique ==
    \A row \in BagToSet(UserMessage) : CopiesIn(row, UserMessage) = 1

\* A Message with its rows was sent again, and the second INSERT of a row
\* was refused.
C1_Witness ==
    \E w \in Workers :
        /\ result[w] = "IntegrityError"
        /\ \E mid \in Ids(Message) : RowCount(mid) >= 2

(***************************************************************************)
(* C2.  The persistence step is all-or-nothing.  While the transaction of  *)
(* a send is open, and for ever after it was rolled back (a failed INSERT, *)
(* a crash between the Message row and the last UserMessage row), the      *)
(* shared tables hold neither its Message row nor any of its UserMessage   *)
(* rows; once it has committed they hold the Message row and every         *)
(* UserMessage row of the send.                                            *)
(***************************************************************************)
C2_AllOrNothing ==
    /\ Ids(Message) \subseteq DOMAIN sent
    /\ \A row \in BagToSet(UserMessage) : row.message \in DOMAIN sent
    /\ \A mid \in DOMAIN sent :
          IF sent[mid].status = "committed"
          THEN mid \in Ids(Message) /\ Receivers(mid) = Due(mid)
          ELSE mid \notin Ids(Message) /\ Rows(mid) = {}

\* One send was rolled back after it had written its Message row and some,
\* not all, of its UserMessage rows (its id is lost, nothing of it shows),
\* and another committed a Message with two rows.
C2_Witness ==
    /\ \E mid \in DOMAIN sent :
          /\ sent[mid].status = "aborted"
          /\ sent[mid].lost >= 1
          /\ sent[mid].lost < Cardinality(Due(mid))
    /\ \E mid \in DOMAIN sent : Committed(mid) /\ RowCount(mid) >= 2

(***************************************************************************)
(* C3.  Within one call the Message row is written before any of its       *)
(* UserMessage rows, and the POST to the push gateway is issued only after *)
(* the transaction holding them has committed: a POST never names a        *)
(* Message that is not in the store.                                       *)
(***************************************************************************)
C3_Order ==
    /\ \A w \in Workers : \A row \in BagToSet(txn[w].UserMessage) :
          row.message \in Ids(txn[w].Message)
    /\ \A w \in Workers : pc[w] = "post" =>
          /\ txn[w] = NoTxn
          /\ call[w].id \in Ids(Message)
    /\ \A p \in posts : p.message \in Ids(Message) /\ Committed(p.message)

\* A POST was issued for a Message that has delivery markers.
C3_Witness ==
    \E p \in posts : Rows(p.message) # {} /\ p.users # {}

(***************************************************************************)
(* C4.  A message to a Stream or Huddle gets a UserMessage row for exactly *)
(* the users whose Subscription to the recipient was active when the send  *)
(* read the subscriptions and whose account was active then, one row each. *)
(***************************************************************************)
C4_SubscriberFanout ==
    \A mid \in DOMAIN sent :
        Committed(mid) /\ SentTo(mid, {STREAM, HUDDLE}) =>
            /\ Receivers(mid) =
                  {u \in UserProfile : u \in sent[mid].subs /\ u \in sent[mid].accts}
            /\ RowCount(mid) = Cardinality(Receivers(mid))

\* A stream with three active subscribers, one of them with a deactivated
\* account, got a Message with exactly two rows.
C4_Witness ==
    \E mid \in DOMAIN sent :
        /\ Committed(mid)
        /\ SentTo(mid, {STREAM})
        /\ Cardinality(sent[mid].subs) = 3
        /\ Cardinality(sent[mid].subs \ sent[mid].accts) = 1
        /\ RowCount(mid) = 2

(***************************************************************************)
(* C5.  A Personal message is never refused for a duplicate row, and:      *)
(* sender = target gives exactly 1 UserMessage row when that account is    *)
(* active (as read by the send) and none when it is deactivated; sender #  *)
(* target with both accounts active gives exactly 2 rows, the sender's and *)
(* the target's.                                                           *)
(***************************************************************************)
PersonalSends ==
    {mid \in DOMAIN sent : SentTo(mid, {PERSONAL})}

Target(mid) == RecipientRow(sent[mid].recipient).type_id

C5_PersonalFanout ==
    \A mid \in PersonalSends :
        /\ sent[mid].status # "refused"
        /\ Committed(mid) =>
              /\ sent[mid].sender = Target(mid) =>
                    RowCount(mid) = IF Target(mid) \in sent[mid].accts THEN 1 ELSE 0
              /\ sent[mid].sender # Target(mid) /\ Party(mid) \subseteq sent[mid].accts =>
                    RowCount(mid) = 2 /\ Receivers(mid) = Party(mid)

\* A message to oneself with one row and a message to another user with
\* two rows are both in the store.
C5_Witness ==
    /\ \E mid \in PersonalSends :
          Committed(mid) /\ sent[mid].sender = Target(mid) /\ RowCount(mid) = 1
    /\ \E mid \in PersonalSends :
          Committed(mid) /\ sent[mid].sender # Target(mid) /\ RowCount(mid) = 2

\* C5 as stated: sender = target gives exactly 1 row whatever the account.
C5_Original ==
    \A mid \in PersonalSends :
        Committed(mid) =>
            /\ sent[mid].sender = Target(mid) => RowCount(mid) = 1
            /\ sent[mid].sender # Target(mid) /\ Party(mid) \subseteq sent[mid].accts =>
                  RowCount(mid) = 2

(***************************************************************************)
(* What the history variable "done" says of the resolver calls that have   *)
(* ended.  The obj of a call that raised is the row it had made or found.  *)
(***************************************************************************)
Quiet == \A w \in Workers : rpc[w] = "idle"

CallsOf(op) == {c \in done : c.op = op}

Members(c) == Range(c.id_list)

NoRepeats(c) == Cardinality(Members(c)) = Len(c.id_list)

RecipientsOf(type, ids) ==
    {r \in Recipient : r.type = type /\ r.type_id \in ids}

(***************************************************************************)
(* C6.  Concurrent calls of create_stream_if_needed with the same realm    *)
(* and names that are the same up to case end with exactly one Stream row  *)
(* of that name and exactly one Stream Recipient for it, and none of the   *)
(* calls raises.                                                           *)
(***************************************************************************)
C6_Original ==
    Quiet =>
        \A c \in CallsOf("create_stream_if_needed") :
            /\ c.outcome = "ok"
            /\ Cardinality(StreamLookup(c.realm, c.name)) = 1
            /\ Cardinality(RecipientsOf(STREAM,
                                        Ids(StreamLookup(c.realm, c.name)))) = 1

(***************************************************************************)
(* C7.  Concurrent get_huddle calls for one member set converge: every     *)
(* call returns, all of them return the same Huddle, and there is one      *)
(* Huddle row of the hash, one Huddle Recipient for it and no second       *)
(* Subscription of a user to it.  Stated for id lists without repeats.     *)
(***************************************************************************)
C7_Original ==
    Quiet =>
        \A c \in CallsOf("get_huddle") : NoRepeats(c) =>
            /\ c.outcome = "ok"
            /\ \A d \in CallsOf("get_huddle") :
                  NoRepeats(d) /\ Members(d) = Members(c) /\ d.outcome = "ok"
                      => d.obj = c.obj
            /\ Cardinality(HuddleLookup(get_huddle_hash(c.id_list))) = 1
            /\ Cardinality(RecipientsOf(HUDDLE, {c.obj})) = 1
            /\ \A r \in RecipientsOf(HUDDLE, {c.obj}) : \A u \in UserProfile :
                  Cardinality(SubscriptionRows(u, r.id)) <= 1

(***************************************************************************)
(* C8.  Every get_client call returns a Client row of the name asked for,  *)
(* also the call whose INSERT was refused because another worker had made  *)
(* the row; calls with one name return one row, and the table never holds  *)
(* two rows of a name.                                                     *)
(***************************************************************************)
C8_ClientConverges ==
    /\ \A c \in CallsOf("get_client") :
          /\ c.outcome = "ok"
          /\ \E row \in Client : row.id = c.obj /\ row.name = c.name
          /\ \A d \in CallsOf("get_client") : d.name = c.name => d.obj = c.obj
    /\ \A name \in ClientNames : Cardinality(ClientLookup(name)) <= 1

\* A call lost the race, got the IntegrityError, and returned the row the
\* winner made.
C8_Witness ==
    \E c, d \in CallsOf("get_client") :
        /\ c.raced /\ c.outcome = "ok"
        /\ d.created /\ d.name = c.name /\ d.obj = c.obj

(***************************************************************************)
(* C9.  get_huddle depends only on the set of member ids: with any order   *)
(* and any repeats of the ids every call returns a Huddle, and calls with  *)
(* the same set of ids return the same Huddle, whichever comes first.      *)
(* Stated for calls that run one after the other.                          *)
(***************************************************************************)
C9_Original ==
    \A c \in CallsOf("get_huddle") :
        /\ c.outcome = "ok"
        /\ \A d \in CallsOf("get_huddle") : Members(d) = Members(c) => d.obj = c.obj

(***************************************************************************)
(* C10.  Once the get_huddle call that made a Huddle has ended there is    *)
(* exactly one Huddle Recipient for it, exactly one active Subscription to *)
(* that Recipient for each distinct id of the call's list and none for any *)
(* other user, and later calls for the same members change nothing of it.  *)
(***************************************************************************)
C10_Original ==
    \A c \in CallsOf("get_huddle") : c.created =>
        /\ Cardinality(RecipientsOf(HUDDLE, {c.obj})) = 1
        /\ \A r \in RecipientsOf(HUDDLE, {c.obj}) : \A u \in UserProfile :
              Cardinality({s \in SubscriptionRows(u, r.id) : s.active})
                  = IF u \in Members(c) THEN 1 ELSE 0

(***************************************************************************)
(* The ledger calls that have ended.                                       *)
(***************************************************************************)
Adds == CallsOf("do_add_subscription")

Removes == CallsOf("do_remove_subscription")

RECURSIVE Total(_, _)
Total(field, calls) ==
    IF calls = {} THEN 0
    ELSE LET c == CHOOSE x \in calls : TRUE
         IN  c[field] + Total(field, calls \ {c})

SubscriptionEvents ==
    {k \in 1..Len(log) :
        log[k].type \in {"subscription_added", "subscription_removed"}}

(***************************************************************************)
(* C11.  For calls that run one after the other: do_add_subscription       *)
(* returns true exactly when the (user, recipient) row was absent or       *)
(* inactive when it was called, and false when it was active;              *)
(* do_remove_subscription returns false when there was no row and          *)
(* otherwise whether the row was active; of two removes in a row the       *)
(* second returns false.                                                   *)
(***************************************************************************)
C11_ReturnValues ==
    /\ \A c \in Adds : c.outcome = "ok" /\ c.ret = (c.before # "active")
    /\ \A c \in Removes : c.outcome = "ok" /\ c.ret = (c.before = "active")
    /\ \A c, d \in Removes :
          c.user = d.user /\ c.stream = d.stream /\ d.n = c.n + 1 => ~d.ret

\* An add on the active subscription returned false, then two removes
\* returned true and false.
C11_Witness ==
    \E a \in Adds, c, d \in Removes :
        /\ a.user = c.user /\ c.user = d.user
        /\ a.n + 1 = c.n /\ c.n + 1 = d.n
        /\ a.before = "active" /\ ~a.ret /\ c.ret /\ ~d.ret

(***************************************************************************)
(* C12.  Under any interleaving of do_add_subscription and                 *)
(* do_remove_subscription calls with logging enabled, a call that changes  *)
(* nothing appends no event, and once all calls have ended the number of   *)
(* subscription_added and subscription_removed events in the log equals    *)
(* the number of changes of a subscription's active state.                 *)
(***************************************************************************)
C12_Original ==
    /\ \A c \in Adds \cup Removes : c.changed = 0 => c.logged = 0
    /\ Quiet => Cardinality(SubscriptionEvents)
                    = Total("changed", Adds \cup Removes)

(***************************************************************************)
(* C13.  No step of do_add_subscription or do_remove_subscription deletes  *)
(* a Subscription row or changes whose row it is, the table never holds    *)
(* two rows of one (user, recipient), and the save of a remove leaves the  *)
(* row in the table with active=false.                                     *)
(***************************************************************************)
C13_RowsKept ==
    /\ [](\A s, t \in Subscription :
              s.user_profile = t.user_profile /\ s.recipient = t.recipient
                  => s = t)
    /\ [][/\ \A s \in Subscription : \E t \in Subscription' :
                 /\ t.id = s.id
                 /\ t.user_profile = s.user_profile
                 /\ t.recipient = s.recipient
          /\ \A w \in Workers :
                 rpc[w] = "remove_save" /\ rpc'[w] = "remove_return" =>
                     \E t \in Subscription' :
                         t.id = rcall[w].subscription.id /\ ~t.active]_vars

\* The first user has been unsubscribed and is a row with active=false,
\* and the last user's row has been created.
C13_Witness ==
    /\ \E c \in Removes : c.ret /\ c.user = 1
    /\ RowState(1, 1) = "inactive"
    /\ \E c \in Adds : c.ret /\ c.user = MaxUser /\ c.changed = 1

(***************************************************************************)
(* C14.  A send that is not exempt from logging appends exactly one        *)
(* message event, on entering do_send_message, when nothing of the send    *)
(* is persisted yet; no later step of a send appends; a send whose append  *)
(* fails goes no further and persists nothing; a send with no_log or from  *)
(* a "test:" client appends nothing and, like any send, commits one        *)
(* UserMessage row per active subscriber with an active account.           *)
(***************************************************************************)
Entered(w) == pc[w] = "idle" /\ pc'[w] = "resolve"

Logged(c) ==
    \E k \in 1..Len(log) :
        /\ log[k].type = "message" /\ log[k].sender = c.sender
        /\ log[k].client = c.client /\ log[k].content = c.content

C14_LogBeforeSave ==
    /\ [](/\ \A w \in Workers :
                pc[w] # "idle" /\ logs(call[w]) => Logged(call[w])
          /\ \A mid \in DOMAIN sent :
                Committed(mid) => /\ Receivers(mid) = Due(mid)
                                  /\ RowCount(mid) = Cardinality(Due(mid)))
    /\ [][/\ \A w \in Workers : Entered(w) =>
                 /\ log' = IF logs(call'[w])
                           THEN Append(log, to_log_dict(call'[w])) ELSE log
                 /\ call'[w].id = 0 /\ txn'[w] = NoTxn
                 /\ Message' = Message /\ UserMessage' = UserMessage
          /\ (\A w \in Workers : ~Entered(w)) => log' = log
          /\ \A w \in Workers :
                 result'[w] = "IOError" /\ nsends' # nsends /\ pc' = pc =>
                     /\ pc'[w] = "idle" /\ txn' = txn
                     /\ Message' = Message /\ UserMessage' = UserMessage
         ]_vars

\* One send failed in the log and left nothing; another was logged once
\* and committed with its rows.
C14_Witness ==
    /\ \E w \in Workers : result[w] = "IOError"
    /\ Len(log) = 1
    /\ \E mid \in DOMAIN sent : Committed(mid) /\ RowCount(mid) > 0
    /\ Cardinality(Message) = 1

(***************************************************************************)
(* C15.  The step in which the POST to the push gateway fails leaves the   *)
(* Message and UserMessage tables as they are, with the Message of the     *)
(* send in them, and ends the call: nothing is rolled back and nothing is  *)
(* saved again.  A committed Message keeps its rows in every step.         *)
(***************************************************************************)
PostFailed(w) ==
    pc[w] = "post" /\ pc'[w] = "idle" /\ result'[w] = "ConnectionError"

C15_PostFailureKeepsRows ==
    [][/\ \A w \in Workers : PostFailed(w) =>
             /\ Message' = Message /\ UserMessage' = UserMessage
             /\ nextMessageId' = nextMessageId /\ txn' = txn
             /\ call[w].id \in Ids(Message')
             /\ call'[w] = NoCall
      /\ \A mid \in DOMAIN sent : Committed(mid) =>
             /\ mid \in Ids(Message')
             /\ RowCount(mid)' = RowCount(mid)
     ]_vars

\* A POST failed for a message that is committed with its rows.
C15_Witness ==
    /\ \E w \in Workers : result[w] = "ConnectionError"
    /\ \E p \in posts : Committed(p.message) /\ RowCount(p.message) > 0

(***************************************************************************)
(* C16.  Once the message is persisted do_send_message reports success to  *)
(* its caller: a POST that cannot reach the push gateway is not surfaced   *)
(* as an error of the send.                                                *)
(***************************************************************************)
C16_Original ==
    \A w \in Workers : result[w] # "ConnectionError"

(***************************************************************************)
(* C17.  On every send path a body longer than 10000 units is persisted    *)
(* as its first 3900 units followed by the truncation notice, and a body   *)
(* of at most 10000 units is persisted unchanged.                          *)
(***************************************************************************)
C17_Original ==
    \A m \in Message : m.id \in DOMAIN sent =>
        m.content = IF len(sent[m.id].body) > MAX_MESSAGE_LENGTH
                    THEN [kept |-> TruncatedLength, notice |-> TRUE]
                    ELSE sent[m.id].body

(***************************************************************************)
(* C18.  A sweep by Message.remove_unreachable deletes the Messages that   *)
(* no UserMessage row refers to and nothing else: after it every Message   *)
(* left has a row, every Message that had a row is still there, and the    *)
(* UserMessage table is as it was.                                         *)
(***************************************************************************)
C18_Sweep ==
    [][remove_unreachable =>
          /\ \A m \in Message' : Rows(m.id)' # {}
          /\ \A m \in Message : Rows(m.id) # {} => m \in Message'
          /\ \A m \in Message \ Message' : Rows(m.id) = {}
          /\ UserMessage' = UserMessage
      ]_vars

\* A committed Message without rows has been swept away and a Message with
\* rows is still in the table.
C18_Witness ==
    /\ \E mid \in DOMAIN sent : Committed(mid) /\ mid \notin Ids(Message)
                                   /\ Rows(mid) = {}
    /\ \E m \in Message : Committed(m.id) /\ Rows(m.id) # {}

(***************************************************************************)
(* C19.  A do_send_message whose recipient has a type that is none of      *)
(* Personal, Stream and Huddle ends with an error (ValueError, or KeyError *)
(* from the log when the message is logged) and is not tried again; it     *)
(* never reaches the save: no Message row, committed or not, no            *)
(* UserMessage row and no POST is ever of such a recipient.                *)
(***************************************************************************)
BadType(rid) == RecipientRow(rid).type \notin {PERSONAL, STREAM, HUDDLE}

C19_BadTypeFatal ==
    /\ [](/\ \A w \in Workers :
                /\ pc[w] \notin {"idle", "resolve"} => ~BadType(call[w].recipient)
                /\ \A m \in txn[w].Message : ~BadType(m.recipient)
          /\ \A m \in Message :
                /\ ~BadType(m.recipient)
                /\ Rows(m.id) # {} => ~BadType(m.recipient)
          /\ \A p \in posts : \E m \in Message :
                m.id = p.message /\ ~BadType(m.recipient))
    /\ [][\A w \in Workers :
             /\ pc[w] = "resolve" /\ BadType(call[w].recipient)
                    /\ pc'[w] # pc[w] =>
                  /\ pc'[w] = "idle" /\ result'[w] = "ValueError"
                  /\ Message' = Message /\ UserMessage' = UserMessage
                  /\ posts' = posts /\ txn' = txn
             /\ result'[w] = "KeyError" /\ nsends' # nsends /\ pc' = pc =>
                  /\ pc'[w] = "idle" /\ log' = log
                  /\ Message' = Message /\ UserMessage' = UserMessage
                  /\ posts' = posts /\ txn' = txn
         ]_vars

\* One send to the Recipient of the unknown type ended with ValueError,
\* another with KeyError, and nothing is stored.
C19_Witness ==
    /\ \E w \in Workers : result[w] = "ValueError"
    /\ \E w \in Workers : result[w] = "KeyError"
    /\ nsends = 2 /\ Message = {} /\ UserMessage = EmptyBag /\ posts = {}

(***************************************************************************)
(* C20.  In every state, get_display_recipient of a Recipient returns what *)
(* a fresh computation from the current Stream name or the current         *)
(* Subscription rows of that Recipient gives.                              *)
(***************************************************************************)
C20_Original ==
    \A rid \in Ids(Recipient) :
        get_display_recipient(rid) = display_recipient(rid)

(***************************************************************************)
(* C21.  A Message row, once in the store, stays there with the rows it    *)
(* has, and the send that committed it stays committed.  A committed       *)
(* Message has no UserMessage row only when no user of the recipient set   *)
(* its send computed had an active account when the send read it (an empty *)
(* set included); with at least one such user it has at least one row.     *)
(***************************************************************************)
Computed(mid) ==
    IF SentTo(mid, {PERSONAL}) THEN Party(mid) ELSE sent[mid].subs

C21_Persisted ==
    /\ [](/\ \A m \in Message : Committed(m.id)
          /\ \A mid \in DOMAIN sent :
                Committed(mid) =>
                    /\ mid \in Ids(Message)
                    /\ RowCount(mid) = 0 =>
                           Computed(mid) \cap sent[mid].accts = {}
                    /\ Computed(mid) \cap sent[mid].accts # {} =>
                           RowCount(mid) >= 1)
    /\ [][\A mid \in DOMAIN sent :
             Committed(mid) =>
                 /\ Committed(mid)'
                 /\ \E m \in Message : m.id = mid /\ m \in Message'
                 /\ Rows(mid)' = Rows(mid)
         ]_vars

\* Two committed Messages: one without rows, whose computed users were all
\* deactivated, and one with a row although a computed user was deactivated.
C21_Witness ==
    /\ \E mid \in DOMAIN sent :
          /\ Committed(mid) /\ RowCount(mid) = 0
          /\ Computed(mid) # {} /\ Computed(mid) \cap sent[mid].accts = {}
    /\ \E mid \in DOMAIN sent :
          /\ Committed(mid) /\ RowCount(mid) > 0
          /\ Computed(mid) \ sent[mid].accts # {}

(***************************************************************************)
(* C22.  With a gateway configured, the users of the POST made for a       *)
(* Message are the whole recipient set its send computed, the users with a *)
(* deactivated account among them, so they include every user that holds a *)
(* UserMessage row of the Message; without a gateway no POST is made.      *)
(***************************************************************************)
C22_PostsAllRecipients ==
    /\ ~TORNADO_SERVER => posts = {}
    /\ \A p \in posts :
          /\ Committed(p.message)
          /\ p.users = Computed(p.message)
          /\ Receivers(p.message) \subseteq p.users

\* A POST that names a user with a deactivated account, who holds no row,
\* beside a user who holds one.
C22_Witness ==
    \E p \in posts :
        /\ p.users \ sent[p.message].accts # {}
        /\ Receivers(p.message) # {}
        /\ p.users \ Receivers(p.message) # {}

(***************************************************************************)
(* C23.  Whenever a create_stream_if_needed call returns a Stream, the     *)
(* Stream Recipient of that Stream is in the store at that moment, so the  *)
(* Recipient.objects.get(type_id=stream.id, type=STREAM) its caller makes  *)
(* next finds it.                                                          *)
(***************************************************************************)
C23_Original ==
    [][\A c \in done' \ done :
           c.op = "create_stream_if_needed" /\ c.outcome = "ok" =>
               RecipientsOf(STREAM, {c.obj})' # {}
      ]_vars

(***************************************************************************)
(* C24.  With sweeps by Message.remove_unreachable running between the     *)
(* steps of do_send_message calls, every UserMessage row of the store      *)
(* refers to a Message row of the store, and a Message the sweep has       *)
(* removed is one whose send had no row to write: none that has, or gets,  *)
(* a row is removed.                                                       *)
(***************************************************************************)
Swept(mid) == Committed(mid) /\ mid \notin Ids(Message)

C24_NoDanglingRow ==
    /\ \A row \in BagToSet(UserMessage) : row.message \in Ids(Message)
    /\ \A mid \in DOMAIN sent :
          /\ Swept(mid) => Due(mid) = {} /\ Rows(mid) = {}
          /\ Committed(mid) /\ Due(mid) # {} =>
                mid \in Ids(Message) /\ Receivers(mid) = Due(mid)

\* A Message has been swept away while another send has written its
\* Message and a row for it and has not committed them yet.
C24_Witness ==
    /\ \E mid \in DOMAIN sent : Swept(mid)
    /\ \E w \in Workers :
          /\ pc[w] = "commit"
          /\ txn[w].Message # {}
          /\ txn[w].UserMessage # EmptyBag
          /\ Unreachable = {}

====
